---- MODULE Spec2Model ----
(***************************************************************************)
(* Model of the EliasDB data-mining collector                              *)
(* (examples/data-mining/docker-images/collector/app/main.py).             *)
(*                                                                         *)
(* One thread of control runs the loop of lines 69-71; schedule's          *)
(* run_pending() calls job() synchronously.  job() is modelled statement   *)
(* by statement.  Fault model: every statement of the first try block      *)
(* (lines 28-43) may raise an Exception, the POST of the second try block  *)
(* (lines 57-58) may raise one; the except clauses and the status check    *)
(* only print values already computed and raise only through the names     *)
(* they evaluate (an unbound local raises UnboundLocalError).              *)
(*                                                                         *)
(* Time is a wall clock counted in units of 1/TicksPerSec seconds; it      *)
(* advances during time.sleep(1) and during the two network calls.         *)
(* Texts are TLA+ strings, built the way Python's str() builds them.       *)
(***************************************************************************)
EXTENDS Integers, Sequences, FiniteSets, TLC

VARIABLES
    clock,      \* wall clock, in units of 1/TicksPerSec s (time.time(), datetime.now())
    next_run,   \* schedule.Job.next_run of the one scheduled job
    loopPc,     \* position of the loop of lines 69-71
    jobPc,      \* position inside job()
    active,     \* number of invocations of job() entered and not yet left
    tick,       \* number of invocations of job() started so far
    ended,      \* number of invocations of job() that returned or raised
    now,        \* local `now`: <<>> while unbound, <<seconds>> once assigned
    r,          \* local `r`: <<>> while unbound, <<response>> once assigned
    res_time,   \* local `res_time`: <<>> or <<microseconds>>
    exc,        \* the exception being handled or propagating: <<>> or <<e>>
    result,     \* local `result`: <<>> while unbound, <<record>> once built
    t0,         \* clock at which this invocation of job() was entered
    faultAt,    \* statement of the probe block that raised in this invocation
    probeExc,   \* the exception that statement raised: <<>> or <<e>>
    got,        \* the Response this invocation's GET returned: <<>> or <<response>>
    postDone,   \* outcome of this invocation's POST: "none", "answered", "raised"
    built,      \* number of result records constructed by this invocation
    posts,      \* number of POST attempts made by this invocation
    body,       \* JSON array handed to requests.post by this invocation
    out,        \* lines printed by this invocation
    failed,     \* ticks whose GET raised or whose POST raised or was answered non-200
    start,      \* clock at which line 67 scheduled the job
    since,      \* clock of the last scheduling: line 67, or the last return of job()
    busy,       \* clock units spent inside the invocations of job() that returned
    keys        \* keys of the records built so far, oldest first

vars == <<clock, next_run, loopPc, jobPc, active, tick, ended, now, r, res_time,
          exc, result, t0, faultAt, probeExc, got, postDone, built, posts, body,
          out, failed, start, since, busy, keys>>

history == <<start, since, busy, keys>>

locals == <<now, r, res_time, exc, result, t0, faultAt, probeExc, got, postDone,
            built, posts, body, out>>

(***************************************************************************)
(* Bounds of the model                                                     *)
(***************************************************************************)
TicksPerSec == 2     \* clock resolution: units per second
StartSec == 8        \* Unix time (seconds) at process start
RunSecs == 12        \* length of the observed run, in seconds
MaxNet == 1          \* longest network call, in clock units
MaxJitter == 1       \* longest oversleep of time.sleep(1), in clock units

MaxClock == (StartSec + RunSecs) * TicksPerSec

(***************************************************************************)
(* Program constants                                                       *)
(***************************************************************************)
Interval == 5        \* schedule.every(5).seconds
PollPeriod == 1      \* time.sleep(1)
OkStatus == 200      \* r.status_code != 200

url == "https://devt.de"

(***************************************************************************)
(* The environment: what the target, the store and the runtime can do      *)
(***************************************************************************)
\* Exceptions a statement may raise: str(e) is args[1], or "" without args.
Errors ==
    { [cls |-> "ConnectionError", args |-> <<"connection refused">>],
      [cls |-> "MemoryError",     args |-> <<>>] }

UnboundLocalError ==
    [cls |-> "UnboundLocalError",
     args |-> <<"local variable 'now' referenced before assignment">>]

\* requests.get returns a Response for every HTTP status (no raise_for_status).
GetStatuses == {200, 500}

\* Statuses and bodies the store may answer the POST with.
PostStatuses == {200, 201, 404, 500}
PostTexts == {"", "store error"}

NetDurs == 0 .. MaxNet
SleepDurs == (PollPeriod * TicksPerSec) .. (PollPeriod * TicksPerSec + MaxJitter)

(***************************************************************************)
(* Python's text conversions                                               *)
(***************************************************************************)
Digit(d) ==
    CASE d = 0 -> "0" [] d = 1 -> "1" [] d = 2 -> "2" [] d = 3 -> "3"
      [] d = 4 -> "4" [] d = 5 -> "5" [] d = 6 -> "6" [] d = 7 -> "7"
      [] d = 8 -> "8" [] d = 9 -> "9"

RECURSIVE StrNat(_)
StrNat(n) == IF n < 10 THEN Digit(n) ELSE StrNat(n \div 10) \o Digit(n % 10)

\* str(int)
StrInt(n) == IF n < 0 THEN "-" \o StrNat(0 - n) ELSE StrNat(n)

\* "%0<w>d" % n for n >= 0
RECURSIVE Pad(_, _)
Pad(n, w) == IF w = 0 THEN "" ELSE Pad(n \div 10, w - 1) \o Digit(n % 10)

\* str(datetime.timedelta(microseconds=us)) for us >= 0
StrTimedelta(us) ==
    LET days  == (us \div 1000000) \div 86400
        secs  == (us \div 1000000) % 86400
        micro == us % 1000000
        hh    == secs \div 3600
        mm    == (secs % 3600) \div 60
        ss    == secs % 60
        hms   == StrNat(hh) \o ":" \o Pad(mm, 2) \o ":" \o Pad(ss, 2)
        d     == IF days = 0 THEN ""
                 ELSE StrNat(days) \o (IF days = 1 THEN " day, " ELSE " days, ")
        f     == IF micro = 0 THEN "" ELSE "." \o Pad(micro, 6)
    IN  d \o hms \o f

\* str(e) of an exception
StrExc(e) == IF Len(e.args) = 0 THEN "" ELSE e.args[1]

\* a timestamp with the resolution of a minute: int(time.time() / 60)
UnixTimeMinutes == clock \div (TicksPerSec * 60)

\* int(time.time())
UnixTime == clock \div TicksPerSec

\* r.elapsed of a request that took d clock units, in microseconds
Elapsed(d) == (d * 1000000) \div TicksPerSec

(***************************************************************************)
(* Initial state: line 67 has scheduled the job, the loop is about to run  *)
(***************************************************************************)
NoLocals ==
    /\ now = <<>> /\ r = <<>> /\ res_time = <<>> /\ exc = <<>> /\ result = <<>>
    /\ t0 = 0 /\ faultAt = "none" /\ probeExc = <<>> /\ got = <<>>
    /\ postDone = "none" /\ built = 0 /\ posts = 0 /\ body = <<>> /\ out = <<>>

Init ==
    /\ clock \in { StartSec * TicksPerSec + k : k \in 0 .. (TicksPerSec - 1) }
    /\ next_run = clock + Interval * TicksPerSec
    /\ loopPc = "run_pending"
    /\ jobPc = "idle"
    /\ active = 0 /\ tick = 0 /\ ended = 0
    /\ failed = {}
    /\ start = clock /\ since = clock /\ busy = 0 /\ keys = <<>>
    /\ NoLocals

(***************************************************************************)
(* Records and the store's JSON body                                       *)
(***************************************************************************)
\* a success record that stores the raw microsecond count
SuccessRecordRaw(nowv, rt) ==
    [key |-> StrInt(nowv), kind |-> "PingResult", url |-> url,
     success |-> TRUE, result |-> StrInt(rt)]

\* lines 37-43
SuccessRecord(nowv, rt) ==
    [key |-> StrInt(nowv), kind |-> "PingResult", url |-> url,
     success |-> TRUE, result |-> StrTimedelta(rt)]

\* a failure record copied from the success path with the flag left True
FailureRecordAsSuccess(nowv, e) ==
    [key |-> StrInt(nowv), kind |-> "PingResult", url |-> url,
     success |-> TRUE, result |-> StrExc(e)]

\* a failure record keyed by a clock read in the handler
FailureRecordRereadClock(nowv, e) ==
    [key |-> StrInt(UnixTime), kind |-> "PingResult", url |-> url,
     success |-> FALSE, result |-> StrExc(e)]

\* lines 48-54
FailureRecord(nowv, e) ==
    [key |-> StrInt(nowv), kind |-> "PingResult", url |-> url,
     success |-> FALSE, result |-> StrExc(e)]

JsonStr(s) == "\"" \o s \o "\""
JsonBool(b) == IF b THEN "true" ELSE "false"

JsonObj(rec) ==
    "{" \o "\"key\": " \o JsonStr(rec.key)
        \o ", \"kind\": " \o JsonStr(rec.kind)
        \o ", \"url\": " \o JsonStr(rec.url)
        \o ", \"success\": " \o JsonBool(rec.success)
        \o ", \"result\": " \o JsonStr(rec.result) \o "}"

RECURSIVE JsonItems(_)
JsonItems(list) ==
    IF Len(list) = 0 THEN ""
    ELSE IF Len(list) = 1 THEN JsonObj(list[1])
    ELSE JsonObj(list[1]) \o ", " \o JsonItems(Tail(list))

\* json.dumps(result): the record itself, not a list holding it
JsonDumpsNoArray(list) == JsonItems(list)

\* json.dumps(list of records)
JsonDumps(list) == "[" \o JsonItems(list) \o "]"

(***************************************************************************)
(* The scheduler: schedule.run_pending() and the loop of lines 69-71       *)
(***************************************************************************)
\* a job taken as due one polling period before its time
ShouldRunEarly == clock + PollPeriod * TicksPerSec >= next_run

\* schedule.Job.should_run: datetime.now() >= self.next_run
ShouldRun == clock >= next_run

\* a fresh frame of job(): no local is bound
ResetLocals ==
    /\ now' = <<>> /\ r' = <<>> /\ res_time' = <<>> /\ exc' = <<>> /\ result' = <<>>
    /\ faultAt' = "none" /\ probeExc' = <<>> /\ got' = <<>>
    /\ postDone' = "none" /\ built' = 0 /\ posts' = 0 /\ body' = <<>> /\ out' = <<>>

\* a dispatcher that starts job() when it is due and does not wait for it
RunPendingAsync ==
    /\ loopPc = "run_pending"
    /\ UNCHANGED history
    /\ loopPc' = "sleep"
    /\ IF ShouldRun
       THEN /\ jobPc' = "capture"
            /\ active' = active + 1
            /\ tick' = tick + 1
            /\ t0' = clock
            /\ ResetLocals
       ELSE UNCHANGED <<jobPc, active, tick, locals>>
    /\ UNCHANGED <<clock, next_run, ended, failed>>

\* line 70: run_pending() calls job() when it is due and blocks until it is left
RunPending ==
    /\ loopPc = "run_pending"
    /\ UNCHANGED history
    /\ IF ShouldRun
       THEN /\ loopPc' = "in_job"
            /\ jobPc' = "capture"
            /\ active' = active + 1
            /\ tick' = tick + 1
            /\ t0' = clock
            /\ ResetLocals
       ELSE /\ loopPc' = "sleep"
            /\ UNCHANGED <<jobPc, active, tick, locals>>
    /\ UNCHANGED <<clock, next_run, ended, failed>>

\* line 71: time.sleep(1) sleeps at least one second
Sleep ==
    /\ loopPc = "sleep"
    /\ UNCHANGED history
    /\ \E d \in SleepDurs :
          /\ clock + d <= MaxClock
          /\ clock' = clock + d
    /\ loopPc' = "run_pending"
    /\ UNCHANGED <<next_run, jobPc, active, tick, ended, locals, failed>>

\* a fixed-rate timer: the next run is due 5 s after the previous due time
JobReturnFixedRate ==
    /\ jobPc = "done"
    /\ since' = clock
    /\ busy' = busy + (clock - t0)
    /\ UNCHANGED <<start, keys>>
    /\ jobPc' = "idle"
    /\ loopPc' = "sleep"
    /\ next_run' = next_run + Interval * TicksPerSec
    /\ active' = active - 1
    /\ ended' = ended + 1
    /\ t0' = 0
    /\ ResetLocals
    /\ UNCHANGED <<clock, tick, failed>>

\* line 70: job() returned; schedule sets next_run = now + 5 s and
\* run_pending() returns to the loop
JobReturn ==
    /\ jobPc = "done"
    /\ since' = clock
    /\ busy' = busy + (clock - t0)
    /\ UNCHANGED <<start, keys>>
    /\ jobPc' = "idle"
    /\ loopPc' = "sleep"
    /\ next_run' = clock + Interval * TicksPerSec
    /\ active' = active - 1
    /\ ended' = ended + 1
    /\ t0' = 0
    /\ ResetLocals
    /\ UNCHANGED <<clock, tick, failed>>

\* lines 69-70: nothing between job() and the top level catches an exception:
\* it unwinds job(), run_pending() and the while loop, and the process ends
JobRaise ==
    /\ jobPc = "raising"
    /\ UNCHANGED history
    /\ jobPc' = "raised"
    /\ loopPc' = "terminated"
    /\ active' = active - 1
    /\ ended' = ended + 1
    /\ UNCHANGED <<clock, next_run, tick, locals, failed>>

(***************************************************************************)
(* job(), first try block: lines 26-54                                     *)
(***************************************************************************)
\* a statement of the try block raises e: control goes to line 45
Raise(stmt) ==
    /\ \E e \in Errors : exc' = <<e>> /\ probeExc' = <<e>>
    /\ faultAt' = stmt
    /\ jobPc' = "except_probe"

\* line 28: now = int(time.time())
Capture ==
    /\ jobPc = "capture"
    /\ UNCHANGED history
    /\ \/ /\ now' = <<UnixTime>>
          /\ jobPc' = "log_start"
          /\ UNCHANGED <<exc, faultAt, probeExc>>
       \/ /\ Raise("capture")
          /\ UNCHANGED now
    /\ UNCHANGED <<clock, next_run, loopPc, active, tick, ended, r, res_time, result,
                   t0, got, postDone, failed, built, posts, body, out>>

\* lines 29-30: print("Running request for ...")
LogStart ==
    /\ jobPc = "log_start"
    /\ UNCHANGED history
    /\ \/ /\ out' = Append(out, [kind |-> "start", text |-> StrInt(now[1])])
          /\ jobPc' = "get"
          /\ UNCHANGED <<exc, faultAt, probeExc>>
       \/ /\ Raise("log_start")
          /\ UNCHANGED out
    /\ UNCHANGED <<clock, next_run, loopPc, active, tick, ended, now, r, res_time,
                   result, t0, got, postDone, failed, built, posts, body>>

\* a GET followed by r.raise_for_status()
GetRaiseForStatus ==
    /\ jobPc = "get"
    /\ UNCHANGED history
    /\ \E d \in NetDurs :
          /\ clock + d <= MaxClock
          /\ clock' = clock + d
          /\ \/ /\ \E s \in GetStatuses :
                      /\ r' = <<[status_code |-> s, elapsed |-> Elapsed(d), text |-> ""]>>
                      /\ got' = r'
                      /\ IF s >= 400
                         THEN /\ Raise("get")
                              /\ failed' = failed \cup {tick}
                         ELSE /\ jobPc' = "elapsed"
                              /\ UNCHANGED <<exc, faultAt, probeExc, failed>>
             \/ /\ Raise("get")
                /\ failed' = failed \cup {tick}
                /\ UNCHANGED <<r, got>>
    /\ UNCHANGED <<next_run, loopPc, active, tick, ended, now, res_time, result, t0,
                   postDone, built, posts, body, out>>

\* line 32: r = requests.get(url)
Get ==
    /\ jobPc = "get"
    /\ UNCHANGED history
    /\ \E d \in NetDurs :
          /\ clock + d <= MaxClock
          /\ clock' = clock + d
          /\ \/ /\ \E s \in GetStatuses :
                      r' = <<[status_code |-> s, elapsed |-> Elapsed(d), text |-> ""]>>
                /\ got' = r'
                /\ jobPc' = "elapsed"
                /\ UNCHANGED <<exc, faultAt, probeExc, failed>>
             \/ /\ Raise("get")
                /\ failed' = failed \cup {tick}
                /\ UNCHANGED <<r, got>>
    /\ UNCHANGED <<next_run, loopPc, active, tick, ended, now, res_time, result, t0,
                   postDone, built, posts, body, out>>

\* line 33: res_time = r.elapsed
ReadElapsed ==
    /\ jobPc = "elapsed"
    /\ UNCHANGED history
    /\ \/ /\ res_time' = <<r[1].elapsed>>
          /\ jobPc' = "log_latency"
          /\ UNCHANGED <<exc, faultAt, probeExc>>
       \/ /\ Raise("elapsed")
          /\ UNCHANGED res_time
    /\ UNCHANGED <<clock, next_run, loopPc, active, tick, ended, now, r, result,
                   t0, got, postDone, failed, built, posts, body, out>>

\* line 35: print("    %s -> %s" % (url, res_time))
LogLatency ==
    /\ jobPc = "log_latency"
    /\ UNCHANGED history
    /\ \/ /\ out' = Append(out, [kind |-> "latency", text |-> StrTimedelta(res_time[1])])
          /\ jobPc' = "build"
          /\ UNCHANGED <<exc, faultAt, probeExc>>
       \/ /\ Raise("log_latency")
          /\ UNCHANGED out
    /\ UNCHANGED <<clock, next_run, loopPc, active, tick, ended, now, r, res_time,
                   result, t0, got, postDone, failed, built, posts, body>>

\* lines 37-43: result = {... "success": True ...}
BuildSuccess ==
    /\ jobPc = "build"
    /\ keys' = Append(keys, SuccessRecord(now[1], res_time[1]).key)
    /\ UNCHANGED <<start, since, busy>>
    /\ result' = <<SuccessRecord(now[1], res_time[1])>>
    /\ built' = built + 1
    /\ jobPc' = "post"
    /\ UNCHANGED <<clock, next_run, loopPc, active, tick, ended, now, r, res_time, exc,
                   faultAt, probeExc, t0, got, postDone, failed, posts, body, out>>

\* a handler that builds the failure record and then tries the GET again
ExceptProbeRetryGet ==
    /\ jobPc = "except_probe"
    /\ keys' = IF now # <<>> THEN Append(keys, FailureRecord(now[1], exc[1]).key) ELSE keys
    /\ UNCHANGED <<start, since, busy>>
    /\ out' = Append(out, [kind |-> "probe_error", text |-> StrExc(exc[1])])
    /\ IF now # <<>>
       THEN /\ result' = <<FailureRecord(now[1], exc[1])>>
            /\ built' = 1
            /\ exc' = <<>>
            /\ jobPc' = IF built = 0 /\ faultAt = "get" THEN "get" ELSE "post"
       ELSE /\ exc' = <<UnboundLocalError>>
            /\ jobPc' = "raising"
            /\ UNCHANGED <<result, built>>
    /\ UNCHANGED <<clock, next_run, loopPc, active, tick, ended, now, r, res_time,
                   faultAt, probeExc, t0, got, postDone, failed, posts, body>>

\* lines 45-54: except Exception as e: print, then result = {... "success": False ...};
\* str(now) raises UnboundLocalError when line 28 never assigned `now`
ExceptProbe ==
    /\ jobPc = "except_probe"
    /\ keys' = IF now # <<>> THEN Append(keys, FailureRecord(now[1], exc[1]).key) ELSE keys
    /\ UNCHANGED <<start, since, busy>>
    /\ out' = Append(out, [kind |-> "probe_error", text |-> StrExc(exc[1])])
    /\ IF now # <<>>
       THEN /\ result' = <<FailureRecord(now[1], exc[1])>>
            /\ built' = built + 1
            /\ exc' = <<>>
            /\ jobPc' = "post"
       ELSE /\ exc' = <<UnboundLocalError>>
            /\ jobPc' = "raising"
            /\ UNCHANGED <<result, built>>
    /\ UNCHANGED <<clock, next_run, loopPc, active, tick, ended, now, r, res_time,
                   faultAt, probeExc, t0, got, postDone, failed, posts, body>>

(***************************************************************************)
(* job(), second try block: lines 56-64                                    *)
(***************************************************************************)
\* a check that accepts every 2xx status
StoreRejectedNon2xx(status) == status \notin 200 .. 299

\* r.status_code != 200
StoreRejected(status) == status # OkStatus

\* lines 57-58: r = requests.post(..., json.dumps([result]), verify=False)
Post ==
    /\ jobPc = "post"
    /\ UNCHANGED history
    /\ body' = <<JsonDumps(<<result[1]>>)>>
    /\ posts' = posts + 1
    /\ \E d \in NetDurs :
          /\ clock + d <= MaxClock
          /\ clock' = clock + d
          /\ \/ /\ \E s \in PostStatuses, t \in PostTexts :
                      /\ r' = <<[status_code |-> s, elapsed |-> Elapsed(d), text |-> t]>>
                      /\ failed' = IF s = OkStatus THEN failed ELSE failed \cup {tick}
                /\ postDone' = "answered"
                /\ jobPc' = "check_status"
                /\ UNCHANGED exc
             \/ /\ \E e \in Errors : exc' = <<e>>
                /\ failed' = failed \cup {tick}
                /\ postDone' = "raised"
                /\ jobPc' = "except_store"
                /\ UNCHANGED r
    /\ UNCHANGED <<next_run, loopPc, active, tick, ended, now, res_time, result,
                   t0, faultAt, probeExc, got, built, out>>

\* lines 60-61: if r.status_code != 200: print("Could not store result: %s", r.text)
CheckStatus ==
    /\ jobPc = "check_status"
    /\ UNCHANGED history
    /\ out' = IF StoreRejected(r[1].status_code)
              THEN Append(out, [kind |-> "store_rejected", text |-> r[1].text])
              ELSE out
    /\ jobPc' = "done"
    /\ UNCHANGED <<clock, next_run, loopPc, active, tick, ended, now, r, res_time, exc,
                   result, faultAt, probeExc, t0, got, postDone, failed, built, posts,
                   body>>

\* a handler that logs the store error and raises it again
ExceptStoreReraise ==
    /\ jobPc = "except_store"
    /\ UNCHANGED history
    /\ out' = Append(out, [kind |-> "store_error", text |-> StrExc(exc[1])])
    /\ jobPc' = "raising"
    /\ UNCHANGED <<clock, next_run, loopPc, active, tick, ended, now, r, res_time, exc,
                   result, faultAt, probeExc, t0, got, postDone, failed, built, posts,
                   body>>

\* lines 63-64: except Exception as e: print("Error storing result: %s", e)
ExceptStore ==
    /\ jobPc = "except_store"
    /\ UNCHANGED history
    /\ out' = Append(out, [kind |-> "store_error", text |-> StrExc(exc[1])])
    /\ exc' = <<>>
    /\ jobPc' = "done"
    /\ UNCHANGED <<clock, next_run, loopPc, active, tick, ended, now, r, res_time,
                   result, faultAt, probeExc, t0, got, postDone, failed, built, posts,
                   body>>

(***************************************************************************)
(* Specifications                                                          *)
(***************************************************************************)
Next ==
    \/ RunPending
    \/ Sleep
    \/ JobReturn
    \/ JobRaise
    \/ Capture
    \/ LogStart
    \/ Get
    \/ ReadElapsed
    \/ LogLatency
    \/ BuildSuccess
    \/ ExceptProbe
    \/ Post
    \/ CheckStatus
    \/ ExceptStore

Spec == Init /\ [][Next]_vars

\* the one thread of control keeps running: every call returns or raises,
\* and the clock moves on
LiveSpec == Spec /\ WF_vars(Next)

TypeOK ==
    /\ clock \in 0 .. MaxClock
    /\ loopPc \in {"run_pending", "in_job", "sleep", "terminated"}
    /\ jobPc \in {"idle", "capture", "log_start", "get", "elapsed", "log_latency",
                  "build", "except_probe", "post", "check_status", "except_store",
                  "done", "raising", "raised"}
    /\ active \in 0 .. 1
    /\ Len(now) <= 1 /\ Len(result) <= 1 /\ Len(exc) <= 1

(***************************************************************************)
(* Vocabulary of the properties                                            *)
(***************************************************************************)
\* an exception is leaving, or has left, job()
Propagates == jobPc \in {"raising", "raised"}

\* this invocation of job() is over: it is about to return, or it has raised
TickOver == jobPc \in {"done", "raised"}

\* this invocation's GET raised / returned a Response
GetFailed == faultAt = "get"
GetSucceeded == got # <<>>

\* ticks a run of RunSecs seconds can start: the first is due after Interval
\* seconds, each later one Interval seconds after the previous one returned
TickIds == 1 .. (RunSecs \div Interval)

\* enough of the observed run is left for the POST, the wait of Interval
\* seconds and the last poll of the loop
HasTime ==
    clock + MaxNet + Interval * TicksPerSec + PollPeriod * TicksPerSec + MaxJitter
        <= MaxClock

(***************************************************************************)
(* C1: no exception ever propagates out of job(), whatever statement of    *)
(* the probe block raises and however the POST ends.                       *)
(* Refuted: when line 28 raises, `now` is unbound at line 49.              *)
(***************************************************************************)
C1_JobNeverRaises == ~Propagates

(***************************************************************************)
(* C2: invocations of job() never overlap: at most one is in progress, and *)
(* whenever tick N+1 is at any of its statements (its GET included), all   *)
(* N earlier ticks are over.                                               *)
(***************************************************************************)
C2_NoOverlap ==
    /\ active <= 1
    /\ active = tick - ended
    /\ jobPc = "get" => ended = tick - 1

C2_Witness == tick = 2 /\ jobPc = "get" /\ ended = 1

(***************************************************************************)
(* C4: an exception that leaves job() does not end the scheduler loop.     *)
(* Refuted: lines 69-71 and schedule.run_pending() catch nothing.          *)
(***************************************************************************)
C4_LoopSurvivesTaskException == jobPc = "raised" => loopPc # "terminated"

(***************************************************************************)
(* C5: every tick constructs exactly one result record and makes at most   *)
(* one POST attempt.                                                       *)
(* Refuted: the tick in which line 28 raises constructs none.              *)
(***************************************************************************)
C5_OneRecordOnePost ==
    /\ built <= 1
    /\ posts <= 1
    /\ TickOver => built = 1

(***************************************************************************)
(* C3: a probe failure or a submission failure never ends the process:     *)
(* in a tick whose GET raised or whose POST raised or was rejected the     *)
(* loop is not terminated, and (while the observed run has time left) the  *)
(* next tick eventually starts.  Checked under LiveSpec.                   *)
(***************************************************************************)
C3_FailureDoesNotStopLoop ==
    /\ [](tick \in failed => loopPc # "terminated")
    /\ \A n \in TickIds : (tick = n /\ n \in failed /\ HasTime) ~> (tick = n + 1)

C3_Witness == tick = 2 /\ 1 \in failed /\ jobPc = "capture" /\ loopPc = "in_job"

(***************************************************************************)
(* C6 as claimed: when the GET raises, the record has success=false and a  *)
(* non-empty error text, and nothing propagates out of job().              *)
(* Refuted: str(e) is empty for an error raised without a message.         *)
(***************************************************************************)
C6_FailureTextNonEmpty ==
    (GetFailed /\ jobPc # "except_probe") =>
        /\ ~Propagates
        /\ built = 1
        /\ ~result[1].success
        /\ result[1].result # ""

(***************************************************************************)
(* C6 as amended: when the GET raises, the record has success=false and    *)
(* result = str(e), the text of the raised error, which is empty when the  *)
(* error carries no message; nothing propagates out of job().              *)
(***************************************************************************)
C6_FailureRecordOfRaisedError ==
    (GetFailed /\ jobPc # "except_probe") =>
        /\ ~Propagates
        /\ built = 1
        /\ ~result[1].success
        /\ result[1].result = StrExc(probeExc[1])
        /\ (probeExc[1].args = <<>> => result[1].result = "")

C6_Witness ==
    /\ GetFailed /\ built = 1 /\ ~result[1].success
    /\ probeExc[1].cls = "MemoryError" /\ result[1].result = ""

C8_ErrorStatusIsFailure ==
    built = 1 =>
        ((GetFailed \/ (GetSucceeded /\ got[1].status_code >= 400))
            => ~result[1].success)

(***************************************************************************)
(* C8 as amended: a target whose GET raises (no response is delivered)     *)
(* yields success=false; a target that answers the GET, with status 500    *)
(* as with status 200, yields success=true when the rest of the probe      *)
(* block completes.                                                        *)
(***************************************************************************)
C8_FailureIsRaiseNotStatus ==
    built = 1 =>
        /\ GetFailed => (~GetSucceeded /\ ~result[1].success)
        /\ (GetSucceeded /\ faultAt = "none") => result[1].success

C8_Witness ==
    /\ built = 1 /\ GetSucceeded /\ got[1].status_code = 500
    /\ faultAt = "none" /\ result[1].success

(***************************************************************************)
(* C9: lines of the log that report a submission failure                   *)
(***************************************************************************)
StoreLines == SelectSeq(out, LAMBDA l : l.kind \in {"store_rejected", "store_error"})

PostAnswered == postDone = "answered"

(***************************************************************************)
(* C9 as claimed: a submission failure is logged exactly when the POST     *)
(* raised or was answered with a non-2xx status; a non-2xx answer logs     *)
(* the response body, a 2xx answer logs nothing; no retry, no raise.       *)
(* Refuted: line 60 compares with 200, so a 201 answer is logged too.      *)
(***************************************************************************)
C9_LoggedIffNon2xx ==
    jobPc = "done" =>
        /\ posts = 1
        /\ (StoreLines # <<>>) <=>
              (postDone = "raised" \/
               (PostAnswered /\ r[1].status_code \notin 200 .. 299))
        /\ (PostAnswered /\ r[1].status_code \notin 200 .. 299) =>
              StoreLines = <<[kind |-> "store_rejected", text |-> r[1].text]>>

(***************************************************************************)
(* C9 as amended: a submission failure is logged exactly when the POST     *)
(* raised or was answered with a status other than 200; every such answer  *)
(* (every non-2xx one, and a 2xx one other than 200) logs the response     *)
(* body, a 200 answer logs nothing; no retry, no raise.                    *)
(***************************************************************************)
C9_LoggedIffNot200 ==
    jobPc = "done" =>
        /\ posts = 1
        /\ (StoreLines # <<>>) <=>
              (postDone = "raised" \/ (PostAnswered /\ r[1].status_code # 200))
        /\ (PostAnswered /\ r[1].status_code # 200) =>
              StoreLines = <<[kind |-> "store_rejected", text |-> r[1].text]>>
        /\ postDone = "raised" =>
              (Len(StoreLines) = 1 /\ StoreLines[1].kind = "store_error")

C9_Witness ==
    /\ jobPc = "done" /\ PostAnswered /\ r[1].status_code = 201
    /\ StoreLines = <<[kind |-> "store_rejected", text |-> "store error"]>>

(***************************************************************************)
(* C10: every record built in a tick, by the success path or by the        *)
(* failure path, has key = the decimal string of the integer Unix time     *)
(* read at the start of the tick, before the GET; `now` is assigned once   *)
(* and keeps that value.                                                   *)
(***************************************************************************)
C10_KeyIsTickStartTime ==
    /\ now # <<>> => now[1] = t0 \div TicksPerSec
    /\ built = 1 => result[1].key = StrInt(t0 \div TicksPerSec)

C10_Witness ==
    /\ built = 1 /\ ~result[1].success /\ GetFailed
    /\ UnixTime > t0 \div TicksPerSec
    /\ result[1].key = StrInt(t0 \div TicksPerSec)

(***************************************************************************)
(* C14: within a tick the steps are sequential: while the GET is still to  *)
(* come or in progress no record is built and no POST is made, the record  *)
(* is built only after the statements before it have run, and the POST is  *)
(* made only once the record is built.                                     *)
(***************************************************************************)
BeforeGetEnds == jobPc \in {"capture", "log_start", "get"}

GetOver == GetSucceeded \/ GetFailed

C15_NowBoundInHandler ==
    /\ jobPc = "except_probe" => now # <<>>
    /\ exc # <<UnboundLocalError>>

(***************************************************************************)
(* C11: the body POSTed in a tick is the JSON array with one element, the  *)
(* record built in that same tick (success or failure record); it is not   *)
(* the record of an earlier tick, whose key it does not carry, and it is   *)
(* handed over once.                                                       *)
(***************************************************************************)
EarlierKeys == { keys[i] : i \in 1 .. (Len(keys) - 1) }

C11_BodyIsThisTicksRecord ==
    /\ posts = 0 => body = <<>>
    /\ posts >= 1 =>
          /\ posts = 1
          /\ built = 1
          /\ body = <<"[" \o JsonObj(result[1]) \o "]">>
          /\ result[1].key = keys[Len(keys)]
          /\ result[1].key = StrInt(t0 \div TicksPerSec)
          /\ result[1].key \notin EarlierKeys

C11_Witness ==
    /\ tick = 2 /\ 1 \in failed /\ Len(keys) = 2
    /\ posts = 1 /\ ~result[1].success
    /\ body = <<"[" \o JsonObj(result[1]) \o "]">>

(***************************************************************************)
(* C12: cycles executed and the time they need                             *)
(***************************************************************************)
\* T: the duration of the run so far, in clock units
RunTime == clock - start

\* probe cycles executed: invocations of job() that are over
Cycles == ended + (IF jobPc = "done" THEN 1 ELSE 0)

\* clock units those cycles took: Cycles times the per-cycle duration
CycleTime == busy + (IF jobPc = "done" THEN clock - t0 ELSE 0)

(***************************************************************************)
(* C12 as claimed: the number of cycles executed in a run of duration T is *)
(* floor(T / (I + per-cycle duration)): n (I + d) <= T < (n + 1) (I + d),  *)
(* with n d the time the n cycles took.                                    *)
(* Refuted: the loop polls once per second, so a cycle may start later     *)
(* than I after the previous one and fewer cycles are executed.            *)
(***************************************************************************)
C12_CyclesEqualFloor ==
    Cycles >= 1 =>
        /\ Cycles * Interval * TicksPerSec + CycleTime <= RunTime
        /\ RunTime * Cycles < (Cycles + 1) * (Cycles * Interval * TicksPerSec + CycleTime)

(***************************************************************************)
(* C12 as amended: the number of cycles executed in a run of duration T is *)
(* at most floor(T / (I + per-cycle duration)), never more:                *)
(* n (I + d) <= T.                                                         *)
(***************************************************************************)
C12_CyclesAtMostFloor ==
    Cycles * Interval * TicksPerSec + CycleTime <= RunTime

C12_Witness ==
    /\ Cycles = 1
    /\ RunTime >= 2 * (Interval * TicksPerSec + CycleTime)
    /\ loopPc = "run_pending"

(***************************************************************************)
(* C13: at the 5-second cadence, with a clock that never goes back, the    *)
(* records of any two ticks have different keys.                           *)
(***************************************************************************)
C13_KeysUnique ==
    \A i, j \in 1 .. Len(keys) : i # j => keys[i] # keys[j]

C13_Witness == Len(keys) = 2 /\ tick = 2 /\ built = 1 /\ keys[1] # keys[2]

(***************************************************************************)
(* C16: no probe runs before a full wait: none in the first 5 seconds of   *)
(* the process, and every invocation of job() starts at least 5 s after    *)
(* the later of the scheduling at startup and the previous invocation's    *)
(* return, and less than one polling sleep (1 s and its oversleep) after   *)
(* that 5-second mark.                                                     *)
(***************************************************************************)
C16_FullWaitBeforeProbe ==
    /\ clock < start + Interval * TicksPerSec => tick = 0
    /\ active = 1 =>
          /\ t0 >= since + Interval * TicksPerSec
          /\ t0 < since + Interval * TicksPerSec + PollPeriod * TicksPerSec + MaxJitter

C16_Witness ==
    /\ active = 1 /\ tick = 2 /\ jobPc = "capture"
    /\ t0 = since + Interval * TicksPerSec + PollPeriod * TicksPerSec + MaxJitter - 1

====
